---- MODULE Spec2Model ----
(***************************************************************************)
(* Model of the time-alignment estimator of plot_compare.py:               *)
(* estimate_offset, rising_edge_alignment, peak_alignment,                 *)
(* find_rising_edge and generate_time_series.                              *)
(*                                                                         *)
(* Numbers.  Times and offsets are exact rationals [num, den] in lowest    *)
(* terms (seconds).  A signal is a record [num, v]: sample i has the value *)
(* num[i] / sqrt(v).  A raw integer column has v = 1; the column           *)
(* normalised by (x - mean) / std has num[i] = n*x[i] - sum(x) and         *)
(* v = n*sum(x^2) - sum(x)^2, and v = 0 means every sample is NaN (numpy   *)
(* divides 0.0 by 0.0 with a warning, it does not raise).  Python indices  *)
(* are 0-based and are kept 0-based in every value of the model.           *)
(* Comparisons with the thresholds 0.1 and 0.5 are exact integer tests of  *)
(* the squared quantities; no enumerated column has a normalised sample or *)
(* difference exactly on a threshold, so rounding cannot change a verdict. *)
(***************************************************************************)
EXTENDS Integers, Sequences, FiniteSets, TLC

\* Longest enumerated signal and widest data frame.
MaxLen == 3
MaxCols == 2

\* An optional value: a missing configuration key, an unset local.
Absent == {}
Some(x) == {x}
The(o) == CHOOSE x \in o : TRUE

\* ---------------------------------------------------------------- numbers
Abs(n) == IF n < 0 THEN -n ELSE n

RECURSIVE GCD(_, _)
GCD(a, b) == IF b = 0 THEN a ELSE GCD(b, a % b)

Rat(n, d) ==
  IF n = 0 THEN [num |-> 0, den |-> 1]
  ELSE LET g == GCD(Abs(n), Abs(d))
           s == IF d < 0 THEN -1 ELSE 1
       IN  [num |-> (s * n) \div g, den |-> (s * d) \div g]

RatAdd(a, b) == Rat(a.num * b.den + b.num * a.den, a.den * b.den)
RatNeg(a) == Rat(-a.num, a.den)
IntTimesRat(k, r) == Rat(k * r.num, r.den)
IntOverRat(k, r) == Rat(k * r.den, r.num)
Zero == Rat(0, 1)

SampleGt_inclusive(a, v, t) ==
  IF v = 0 THEN FALSE
  ELSE IF t.num >= 0
       THEN a >= 0 /\ a * a * t.den * t.den >= t.num * t.num * v
       ELSE a >= 0 \/ a * a * t.den * t.den <= t.num * t.num * v

\* a / sqrt(v) > t  and  a / sqrt(v) >= t, for a rational t; NaN compares false.
SampleGt(a, v, t) ==
  IF v = 0 THEN FALSE
  ELSE IF t.num >= 0
       THEN a > 0 /\ a * a * t.den * t.den > t.num * t.num * v
       ELSE a >= 0 \/ a * a * t.den * t.den < t.num * t.num * v

SampleGe(a, v, t) ==
  IF v = 0 THEN FALSE
  ELSE IF t.num > 0
       THEN a > 0 /\ a * a * t.den * t.den >= t.num * t.num * v
       ELSE a >= 0 \/ a * a * t.den * t.den <= t.num * t.num * v

\* ---------------------------------------------------------------- results
Ret(x) == [ok |-> TRUE, val |-> x]
Raise(e) == [ok |-> FALSE, exc |-> e]

\* ---------------------------------------------------------------- signals
RECURSIVE SeqSum(_)
SeqSum(s) == IF s = <<>> THEN 0 ELSE Head(s) + SeqSum(Tail(s))

Squares(s) == [i \in 1..Len(s) |-> s[i] * s[i]]

Raw(col) == [num |-> col, v |-> 1]

\* (signal - np.mean(signal)) / np.std(signal)
normalize(col) ==
  LET n == Len(col)
      s == SeqSum(col)
  IN  [num |-> [i \in 1..n |-> n * col[i] - s],
       v   |-> n * SeqSum(Squares(col)) - s * s]

np_diff(signal) ==
  [num |-> [i \in 1..(Len(signal.num) - 1) |-> signal.num[i + 1] - signal.num[i]],
   v   |-> signal.v]

np_argmax_strict(mask) ==
  IF \E i \in 1..Len(mask) : mask[i]
  THEN Ret((CHOOSE i \in 1..Len(mask) :
              mask[i] /\ \A j \in 1..(i - 1) : ~mask[j]) - 1)
  ELSE Raise("ValueError")

\* First index of the largest element of a boolean array; an empty array raises.
np_argmax(mask) ==
  IF Len(mask) = 0 THEN Raise("ValueError")
  ELSE IF \E i \in 1..Len(mask) : mask[i]
       THEN Ret((CHOOSE i \in 1..Len(mask) :
                   mask[i] /\ \A j \in 1..(i - 1) : ~mask[j]) - 1)
       ELSE Ret(0)

find_rising_edge_unadjusted(signal, slope_threshold) ==
  LET delta == np_diff(signal)
      mask == [i \in 1..Len(delta.num) |->
                 SampleGt(delta.num[i], delta.v, slope_threshold)]
  IN  np_argmax(mask)

find_rising_edge(signal, slope_threshold) ==
  LET delta == np_diff(signal)
      mask == [i \in 1..Len(delta.num) |->
                 SampleGt(delta.num[i], delta.v, slope_threshold)]
      rising_index == np_argmax(mask)
  IN  IF rising_index.ok THEN Ret(rising_index.val + 1) ELSE rising_index

SlopeThreshold == Rat(1, 10)
DefaultHeight == Rat(1, 2)

rising_edge_alignment_reversed(s1, s2, sampling_interval) ==
  LET start1 == find_rising_edge(s1, SlopeThreshold)
      start2 == find_rising_edge(s2, SlopeThreshold)
  IN  IF ~start1.ok THEN start1
      ELSE IF ~start2.ok THEN start2
      ELSE Ret(IntTimesRat(start2.val - start1.val, sampling_interval))

rising_edge_alignment_magnitude(s1, s2, sampling_interval) ==
  LET start1 == find_rising_edge(s1, SlopeThreshold)
      start2 == find_rising_edge(s2, SlopeThreshold)
  IN  IF ~start1.ok THEN start1
      ELSE IF ~start2.ok THEN start2
      ELSE Ret(IntTimesRat(Abs(start1.val - start2.val), sampling_interval))

rising_edge_alignment(s1, s2, sampling_interval) ==
  LET start1 == find_rising_edge(s1, SlopeThreshold)
      start2 == find_rising_edge(s2, SlopeThreshold)
  IN  IF ~start1.ok THEN start1
      ELSE IF ~start2.ok THEN start2
      ELSE Ret(IntTimesRat(start1.val - start2.val, sampling_interval))

\* scipy.signal.find_peaks(x, height=height), as line 108 uses it.  The scan
\* of the samples 1..n-2: a run of equal samples that starts above its left
\* neighbour and ends above its right neighbour is one peak, reported at the
\* middle of the run (rounded down); the scan resumes after the run.
RECURSIVE plateau_end(_, _, _)
plateau_end(x, i, i_ahead) ==
  IF i_ahead < Len(x.num) - 1 /\ x.v > 0 /\ x.num[i_ahead + 1] = x.num[i + 1]
  THEN plateau_end(x, i, i_ahead + 1)
  ELSE i_ahead

RECURSIVE local_maxima(_, _)
local_maxima(x, i) ==
  IF i >= Len(x.num) - 1 THEN <<>>
  ELSE IF x.v > 0 /\ x.num[i] < x.num[i + 1]
       THEN LET i_ahead == plateau_end(x, i, i + 1)
            IN  IF x.num[i_ahead + 1] < x.num[i + 1]
                THEN <<(i + (i_ahead - 1)) \div 2>> \o local_maxima(x, i_ahead + 1)
                ELSE local_maxima(x, i + 1)
       ELSE local_maxima(x, i + 1)

\* The peaks whose height is at least `height`, in increasing order.
find_peaks(x, height) ==
  LET tall(p) == SampleGe(x.num[p + 1], x.v, height)
  IN  SelectSeq(local_maxima(x, 1), tall)

peak_alignment_multiplying(s1, s2, sampling_interval, height) ==
  LET peaks1 == find_peaks(s1, height)
      peaks2 == find_peaks(s2, height)
  IN  IF Len(peaks1) = 0 \/ Len(peaks2) = 0 THEN Ret(Zero)
      ELSE Ret(IntTimesRat(peaks1[1] - peaks2[1], sampling_interval))

peak_alignment_unguarded(s1, s2, sampling_interval, height) ==
  LET peaks1 == find_peaks(s1, height)
      peaks2 == find_peaks(s2, height)
  IN  IF Len(peaks1) = 0 \/ Len(peaks2) = 0 THEN Raise("IndexError")
      ELSE Ret(IntOverRat(peaks1[1] - peaks2[1], sampling_interval))

peak_alignment(s1, s2, sampling_interval, height) ==
  LET peaks1 == find_peaks(s1, height)
      peaks2 == find_peaks(s2, height)
  IN  IF Len(peaks1) = 0 \/ Len(peaks2) = 0 THEN Ret(Zero)
      ELSE Ret(IntOverRat(peaks1[1] - peaks2[1], sampling_interval))

generate_time_series_subtracting(length, sampling_interval, offset) ==
  [i \in 1..length |-> RatAdd(IntTimesRat(i - 1, sampling_interval), RatNeg(offset))]

generate_time_series(length, sampling_interval, offset) ==
  [i \in 1..length |-> RatAdd(IntTimesRat(i - 1, sampling_interval), offset)]

ms_to_seconds(ms) == Rat(ms, 1000)

\* ------------------------------------------------------------ data frames
\* A frame is its sequence of columns; shape[1] is the number of columns.
ncols(df) == Len(df)

\* df.iloc[:, i].values : negative positions count from the last column.
iloc(df, i) ==
  IF i >= ncols(df) \/ i < -ncols(df) THEN Raise("IndexError")
  ELSE IF i < 0 THEN Ret(df[ncols(df) + i + 1])
  ELSE Ret(df[i + 1])

config_get(config, key, default) ==
  IF config[key] = Absent THEN default ELSE The(config[key])

method_of(config) == config_get(config, "alignment_method", "cross_correlation")
col1_index_of(config) == config_get(config, "auto_align_column_file1", 1)
col2_index_of(config) == config_get(config, "auto_align_column_file2", 1)
manual_offset_ignored(config) == Zero
manual_offset_of(config) == config_get(config, "manual_offset_s", Zero)

selected_strategy_correlation_as_peak(method) ==
  IF method = "manual" THEN "manual"
  ELSE IF method \in {"peak_detection", "cross_correlation"} THEN "peak_alignment"
  ELSE "rising_edge_alignment"

\* The if / elif / else of lines 88-95.
selected_strategy(method) ==
  IF method = "manual" THEN "manual"
  ELSE IF method = "peak_detection" THEN "peak_alignment"
  ELSE "rising_edge_alignment"

\* The comparison of line 78 that lets a call pass the column check.
columns_accepted(df_1, df_2, col1_index, col2_index) ==
  ~(col1_index >= ncols(df_1) \/ col2_index >= ncols(df_2))

out_of_range_error(df_1, df_2) ==
  [type |-> "ValueError",
   text |-> "Column index out of range",
   file1 |-> <<0, ncols(df_1) - 1>>,
   file2 |-> <<0, ncols(df_2) - 1>>]

peak_height_configured(config) == config_get(config, "peak_height", DefaultHeight)
\* Line 93 passes no height: peak_alignment runs with its default.
peak_height_passed(config) == DefaultHeight

\* Lines 73-95 as one function of the arguments.
estimate_offset(df_1, df_2, sampling_interval, config) ==
  IF ~columns_accepted(df_1, df_2, col1_index_of(config), col2_index_of(config))
  THEN Raise("ValueError")
  ELSE LET c1 == iloc(df_1, col1_index_of(config))
           c2 == iloc(df_2, col2_index_of(config))
       IN  IF ~(c1.ok /\ c2.ok) THEN Raise("IndexError")
           ELSE LET n1 == normalize(c1.val)
                    n2 == normalize(c2.val)
                    chosen == selected_strategy(method_of(config))
                IN  IF chosen = "manual" THEN Ret(manual_offset_of(config))
                    ELSE IF chosen = "peak_alignment"
                         THEN peak_alignment(n1, n2, sampling_interval,
                                             peak_height_passed(config))
                         ELSE rising_edge_alignment(n1, n2, sampling_interval)

auto_align_always(config) == TRUE
\* Lines 172 and 181: config.get("alignment_method", False) used as a
\* condition; a missing key and the empty string are not truthy.
auto_align(config) ==
  config.alignment_method # Absent /\ The(config.alignment_method) # ""

\* len(df)
nrows(df) == Len(df[1])

RatSub(a, b) == RatAdd(a, RatNeg(b))
RatMin(a, b) == IF a.num * b.den <= b.num * a.den THEN a ELSE b
\* int(a / b) for b > 0: the quotient truncated toward zero.
IntOfQuotient(a, b) ==
  LET n == a.num * b.den
      d == a.den * b.num
  IN  IF n >= 0 THEN n \div d ELSE -((-n) \div d)
IntMin(a, b) == IF a <= b THEN a ELSE b
IntMax(a, b) == IF a >= b THEN a ELSE b

\* Lines 184-199: the window [start_s, end_s] main shows.
shown_window(config, length1, length2, sampling_interval, offset) ==
  LET time1 == generate_time_series(length1, sampling_interval, Zero)
      time2 == generate_time_series(length2, sampling_interval, offset)
      max_end_time == RatMin(time1[length1], time2[length2])
  IN  IF config.time_window # Absent
      THEN <<The(config.time_window)[1],
             RatMin(The(config.time_window)[2], max_end_time)>>
      ELSE <<Zero, max_end_time>>

\* ------------------------------------------------------------------ inputs
SampleValues == {0, 1}
File1Example == <<0, 0, 0, 0, 1, 1, 1, 1>>
File2Example == <<0, 0, 1, 1, 1, 1, 1, 1>>
NamedSignals ==
  {File1Example, File2Example,
   <<0, 1, 1, 1, 0>>, <<0, 1, 0, 2>>, <<3, 2, 1, 0>>, <<0, 1, 0, 3, 0>>}
EnumeratedSignals == UNION {[1..n -> SampleValues] : n \in 0..MaxLen}
Signals == EnumeratedSignals \cup NamedSignals
ColumnSignals == {<<0, 0, 1>>, <<1, 1, 1>>, <<0, 1, 0>>}

Reverse(s) == [i \in 1..Len(s) |-> s[Len(s) + 1 - i]]
SampleCounter(n) == [i \in 1..n |-> i - 1]
\* Column 0 counts the samples, the data columns are s and its mirror image.
Frame(s, nc) ==
  [j \in 1..nc |-> IF j = 1 THEN SampleCounter(Len(s))
                   ELSE IF j % 2 = 0 THEN s ELSE Reverse(s)]

Methods ==
  {Absent, Some("manual"), Some("peak_detection"), Some("cross_correlation")}
ManualOffsets == {Absent, Some(Rat(5, 1)), Some(Rat(-5, 2))}
IntervalsMs == {100, 250}
ColumnIndices == {Absent} \cup {Some(i) : i \in (-(MaxCols + 1))..MaxCols}
Thresholds == {Rat(1, 10), Rat(1, 1), Rat(2, 1), Rat(-1, 1)}
MainMethods == Methods \cup {Some("")}
MainSignals == {File1Example, File2Example, <<0, 0, 1>>, << >>}
TimeWindows == {Absent, Some(<<Rat(1, 10), Rat(1, 2)>>), Some(<<Rat(100, 1), Rat(200, 1)>>)}
ConfiguredSlopes == {Absent, Some(Rat(1, 10)), Some(Rat(3, 1))}
ConfiguredHeights == {Absent, Some(Rat(1, 2)), Some(Rat(3, 1))}
NoConfig ==
  [alignment_method |-> Absent,
   auto_align_column_file1 |-> Absent,
   auto_align_column_file2 |-> Absent,
   manual_offset_s |-> Absent,
   slope_threshold |-> Absent,
   peak_height |-> Absent,
   time_window |-> Absent]

\* ------------------------------------------------------------------- state
VARIABLES df1, df2, config, sampling_interval_s, pc,
          signal1, signal2, threshold, start1, start2,
          offset_s, error, out, strategy,
          start_idx1, end_idx1, start_idx2, end_idx2

vars == <<df1, df2, config, sampling_interval_s, pc,
          signal1, signal2, threshold, start1, start2,
          offset_s, error, out, strategy,
          start_idx1, end_idx1, start_idx2, end_idx2>>

indices == <<start_idx1, end_idx1, start_idx2, end_idx2>>

inputs == <<df1, df2, config, sampling_interval_s>>

Locals ==
  /\ signal1 = Absent
  /\ signal2 = Absent
  /\ threshold = Absent
  /\ start1 = Absent
  /\ start2 = Absent
  /\ offset_s = Absent
  /\ error = Absent
  /\ out = <<>>
  /\ strategy = Absent
  /\ start_idx1 = Absent /\ end_idx1 = Absent
  /\ start_idx2 = Absent /\ end_idx2 = Absent

\* Calls on frames "sample counter + one data column" with the default columns.
InitAlign ==
  /\ \E s1 \in Signals, s2 \in Signals :
        df1 = Frame(s1, 2) /\ df2 = Frame(s2, 2)
  /\ \E m \in Methods, o \in ManualOffsets :
        config = [NoConfig EXCEPT !.alignment_method = m, !.manual_offset_s = o]
  /\ \E ms \in IntervalsMs : sampling_interval_s = ms_to_seconds(ms)

\* Calls with every configured column position on frames of every width.
InitColumns ==
  /\ \E s1 \in ColumnSignals, s2 \in ColumnSignals :
     \E n1 \in 1..MaxCols, n2 \in 1..MaxCols :
        df1 = Frame(s1, n1) /\ df2 = Frame(s2, n2)
  /\ \E m \in Methods, c1 \in ColumnIndices, c2 \in ColumnIndices :
        config = [NoConfig EXCEPT !.alignment_method = m,
                                  !.auto_align_column_file1 = c1,
                                  !.auto_align_column_file2 = c2,
                                  !.manual_offset_s = Some(Rat(5, 1))]
  /\ sampling_interval_s = ms_to_seconds(100)

Init ==
  /\ pc = "validate"
  /\ Locals
  /\ (InitAlign \/ InitColumns)

\* ------------------------------------------------- estimate_offset, by step
\* Lines 74-79: read the configuration and check the column positions.
Validate ==
  /\ pc = "validate"
  /\ IF columns_accepted(df1, df2, col1_index_of(config), col2_index_of(config))
     THEN pc' = "select" /\ error' = error
     ELSE pc' = "raised" /\ error' = Some(out_of_range_error(df1, df2))
  /\ UNCHANGED <<inputs, indices, signal1, signal2, threshold, start1, start2,
                 offset_s, out, strategy>>

\* Lines 81-82: take the two columns.
Select ==
  /\ pc = "select"
  /\ LET c1 == iloc(df1, col1_index_of(config))
         c2 == iloc(df2, col2_index_of(config))
     IN  IF c1.ok /\ c2.ok
         THEN /\ signal1' = Some(Raw(c1.val))
              /\ signal2' = Some(Raw(c2.val))
              /\ pc' = "normalize"
              /\ error' = error
         ELSE /\ pc' = "raised"
              /\ error' = Some([type |-> "IndexError"])
              /\ UNCHANGED <<signal1, signal2>>
  /\ UNCHANGED <<inputs, indices, threshold, start1, start2, offset_s, out, strategy>>

\* Lines 85-86.
Normalize ==
  /\ pc = "normalize"
  /\ signal1' = Some(normalize(The(signal1).num))
  /\ signal2' = Some(normalize(The(signal2).num))
  /\ pc' = "dispatch"
  /\ UNCHANGED <<inputs, indices, threshold, start1, start2, offset_s, error, out, strategy>>

\* Lines 88-91.
ManualMode ==
  /\ pc = "dispatch"
  /\ selected_strategy(method_of(config)) = "manual"
  /\ offset_s' = Some(manual_offset_of(config))
  /\ out' = Append(out, "[Manual Mode] Using manual offset")
  /\ strategy' = Some("manual")
  /\ pc' = "done"
  /\ UNCHANGED <<inputs, indices, signal1, signal2, threshold, start1, start2, error>>

\* Lines 92-93 and 107-119.
PeakDetection ==
  /\ pc = "dispatch"
  /\ selected_strategy(method_of(config)) = "peak_alignment"
  /\ LET height == peak_height_passed(config)
         r == peak_alignment(The(signal1), The(signal2), sampling_interval_s, height)
         found == /\ Len(find_peaks(The(signal1), height)) # 0
                  /\ Len(find_peaks(The(signal2), height)) # 0
     IN  IF r.ok
         THEN /\ offset_s' = Some(r.val)
              /\ out' = Append(out, IF found
                                    THEN "[Peak Detection] Estimated offset"
                                    ELSE "[Peak Detection] No peaks found")
              /\ pc' = "done"
              /\ error' = error
         ELSE /\ error' = Some([type |-> r.exc])
              /\ pc' = "raised"
              /\ UNCHANGED <<offset_s, out>>
  /\ strategy' = Some("peak_alignment")
  /\ UNCHANGED <<inputs, indices, signal1, signal2, threshold, start1, start2>>

\* Lines 94-95 and 97-105.
RisingEdge ==
  /\ pc = "dispatch"
  /\ selected_strategy(method_of(config)) = "rising_edge_alignment"
  /\ LET e1 == find_rising_edge(The(signal1), SlopeThreshold)
         e2 == find_rising_edge(The(signal2), SlopeThreshold)
         r == rising_edge_alignment(The(signal1), The(signal2), sampling_interval_s)
     IN  /\ start1' = IF e1.ok THEN Some(e1.val) ELSE Absent
         /\ start2' = IF e1.ok /\ e2.ok THEN Some(e2.val) ELSE Absent
         /\ IF r.ok
            THEN /\ offset_s' = Some(r.val)
                 /\ out' = out \o <<"sampling_interval_s", "Rising edge found at index",
                                     "[Rising-Edge] Estimated offset">>
                 /\ pc' = "done"
                 /\ error' = error
            ELSE /\ error' = Some([type |-> r.exc])
                 /\ pc' = "raised"
                 /\ UNCHANGED <<offset_s, out>>
  /\ threshold' = Some(SlopeThreshold)
  /\ strategy' = Some("rising_edge_alignment")
  /\ UNCHANGED <<inputs, indices, signal1, signal2>>

Next == Validate \/ Select \/ Normalize \/ ManualMode \/ PeakDetection \/ RisingEdge

Spec == Init /\ [][Next]_vars

\* ------------------------------------------- find_rising_edge called directly
InitEdge ==
  /\ pc = "find_rising_edge"
  /\ df1 = <<>> /\ df2 = <<>>
  /\ config = NoConfig
  /\ sampling_interval_s = ms_to_seconds(100)
  /\ \E s \in Signals : signal1 = Some(Raw(s))
  /\ signal2 = Absent
  /\ \E t \in Thresholds : threshold = Some(t)
  /\ start1 = Absent /\ start2 = Absent /\ offset_s = Absent
  /\ error = Absent /\ out = <<>> /\ strategy = Absent
  /\ start_idx1 = Absent /\ end_idx1 = Absent
  /\ start_idx2 = Absent /\ end_idx2 = Absent

\* Lines 62-70.
FindRisingEdge ==
  /\ pc = "find_rising_edge"
  /\ LET r == find_rising_edge(The(signal1), The(threshold))
     IN  IF r.ok
         THEN start1' = Some(r.val) /\ pc' = "returned" /\ error' = error
         ELSE start1' = start1 /\ pc' = "raised" /\ error' = Some([type |-> r.exc])
  /\ UNCHANGED <<inputs, indices, signal1, signal2, threshold, start2, offset_s, out, strategy>>

NextEdge == FindRisingEdge

SpecEdge == InitEdge /\ [][NextEdge]_vars

\* --------------------------- estimate_offset with the thresholds configured
InitThresholds ==
  /\ pc = "validate"
  /\ Locals
  /\ \E s1 \in NamedSignals \cup ColumnSignals, s2 \in NamedSignals \cup ColumnSignals :
        df1 = Frame(s1, 2) /\ df2 = Frame(s2, 2)
  /\ \E m \in Methods, t \in ConfiguredSlopes, h \in ConfiguredHeights :
        config = [NoConfig EXCEPT !.alignment_method = m,
                                  !.manual_offset_s = Some(Rat(5, 1)),
                                  !.slope_threshold = t,
                                  !.peak_height = h]
  /\ sampling_interval_s = ms_to_seconds(100)

SpecThresholds == InitThresholds /\ [][Next]_vars

\* ------------------------------------------------------------------- main
InitMain ==
  /\ pc = "main"
  /\ Locals
  /\ \E s1 \in MainSignals, s2 \in MainSignals :
     \E n1 \in 1..MaxCols, n2 \in 1..MaxCols :
        df1 = Frame(s1, n1) /\ df2 = Frame(s2, n2)
  /\ \E m \in MainMethods, o \in ManualOffsets, w \in TimeWindows :
        config = [NoConfig EXCEPT !.alignment_method = m,
                                  !.manual_offset_s = o,
                                  !.time_window = w]
  /\ \E ms \in IntervalsMs : sampling_interval_s = ms_to_seconds(ms)

\* Lines 168-181: validate_structure, then the offset is estimated when
\* alignment_method is truthy and is manual_offset_s otherwise.
MainOffset ==
  /\ pc = "main"
  /\ IF ncols(df1) # ncols(df2)
     THEN /\ pc' = "raised"
          /\ error' = Some([type |-> "ValueError",
                            text |-> "Column count mismatch between input files."])
          /\ UNCHANGED offset_s
     ELSE IF auto_align(config)
          THEN pc' = "validate" /\ UNCHANGED <<offset_s, error>>
          ELSE /\ offset_s' = Some(config_get(config, "manual_offset_s", Zero))
               /\ pc' = "done"
               /\ UNCHANGED error
  /\ UNCHANGED <<inputs, indices, signal1, signal2, threshold, start1, start2,
                 out, strategy>>

\* Lines 182-205: print the offset, build the two time lists, pick the window
\* and convert it to indices.  time1[-1] raises on a file without rows.
MainWindow ==
  /\ pc = "done"
  /\ out' = Append(out, "offset_s")
  /\ IF nrows(df1) = 0 \/ nrows(df2) = 0
     THEN /\ pc' = "raised"
          /\ error' = Some([type |-> "IndexError", text |-> "list index out of range"])
          /\ UNCHANGED indices
     ELSE LET w == shown_window(config, nrows(df1), nrows(df2),
                                sampling_interval_s, The(offset_s))
              start_s == w[1]
              end_s == w[2]
          IN  /\ start_idx1' = Some(IntOfQuotient(start_s, sampling_interval_s))
              /\ end_idx1' = Some(IntOfQuotient(end_s, sampling_interval_s))
              /\ start_idx2' = Some(IntOfQuotient(RatSub(start_s, The(offset_s)),
                                                  sampling_interval_s))
              /\ end_idx2' = Some(IntOfQuotient(RatSub(end_s, The(offset_s)),
                                                sampling_interval_s))
              /\ pc' = "indices"
              /\ UNCHANGED error
  /\ UNCHANGED <<inputs, signal1, signal2, threshold, start1, start2,
                 offset_s, strategy>>

\* Lines 207-211: "Clamp indices to valid ranges".
MainClamp ==
  /\ pc = "indices"
  /\ end_idx1' = Some(IntMin(The(end_idx1), nrows(df1)))
  /\ end_idx2' = Some(IntMin(The(end_idx2), nrows(df2)))
  /\ start_idx1' = Some(IntMax(The(start_idx1), 0))
  /\ start_idx2' = Some(IntMax(The(start_idx2), 0))
  /\ pc' = "clamped"
  /\ UNCHANGED <<inputs, signal1, signal2, threshold, start1, start2,
                 offset_s, error, out, strategy>>

NextMain ==
  \/ MainOffset \/ Validate \/ Select \/ Normalize
  \/ ManualMode \/ PeakDetection \/ RisingEdge
  \/ MainWindow \/ MainClamp

SpecMain == InitMain /\ [][NextMain]_vars

\* ------------------------------------------------------------ vocabulary
Terminal == pc \in {"done", "raised"}
InRange(i, n) == 0 <= i /\ i < n
ColumnsInRange ==
  /\ InRange(col1_index_of(config), ncols(df1))
  /\ InRange(col2_index_of(config), ncols(df2))
Column1 == iloc(df1, col1_index_of(config))
Column2 == iloc(df2, col2_index_of(config))
\* The call gets as far as the dispatch.
Selectable ==
  /\ col1_index_of(config) < ncols(df1) /\ col2_index_of(config) < ncols(df2)
  /\ Column1.ok /\ Column2.ok
Outcome == IF pc = "done" THEN Ret(The(offset_s)) ELSE Raise(The(error).type)
IsConstant(col) ==
  Len(col) >= 1 /\ \A i \in 1..Len(col), j \in 1..Len(col) : col[i] = col[j]
ConfiguredMethod ==
  IF config.alignment_method = Absent THEN "unset" ELSE The(config.alignment_method)

\* Sample i (0-based, i >= 1) of a signal rises by more than 0.1.
RisesAt(sig, i) ==
  LET d == sig.num[i + 1] - sig.num[i]
  IN  sig.v # 0 /\ d > 0 /\ 100 * d * d > sig.v
\* The first such sample, and 1 when there is none.
FirstRise(sig) ==
  IF \E i \in 1..(Len(sig.num) - 1) : RisesAt(sig, i)
  THEN CHOOSE i \in 1..(Len(sig.num) - 1) :
         RisesAt(sig, i) /\ \A j \in 1..(i - 1) : ~RisesAt(sig, j)
  ELSE 1

\* ------------------------------------------------------------------ claims
\* C1: with alignment method "manual" and both column indices in range,
\* estimate_offset never fails and returns exactly the configured
\* manual_offset_s (0.0 when the key is absent), whatever the two signals hold.
C1_ManualReturnsOffset ==
  (ConfiguredMethod = "manual" /\ ColumnsInRange) =>
     /\ pc # "raised"
     /\ error = Absent
     /\ pc = "done" =>
          offset_s = (IF config.manual_offset_s = Absent
                      THEN Some(Rat(0, 1)) ELSE config.manual_offset_s)

C1_Witness ==
  /\ pc = "done"
  /\ ConfiguredMethod = "manual"
  /\ ColumnsInRange
  /\ IsConstant(Column1.val) /\ ~IsConstant(Column2.val)
  /\ offset_s = Some(Rat(5, 1))

\* C2 (as claimed): a call ends with the out-of-range error naming
\* 0..ncols-1 of each file, and without an offset, exactly when a configured
\* index lies outside 0..ncols-1 (negative indices included).
C2_OutOfRangeRejected ==
  Terminal =>
     IF ColumnsInRange
     THEN error # Some(out_of_range_error(df1, df2))
     ELSE /\ pc = "raised"
          /\ offset_s = Absent
          /\ error = Some([type |-> "ValueError",
                           text |-> "Column index out of range",
                           file1 |-> <<0, ncols(df1) - 1>>,
                           file2 |-> <<0, ncols(df2) - 1>>])

\* C3: a call that reaches the dispatch runs exactly one strategy, chosen by
\* the method: "manual" yields the manual offset, "peak_detection" the
\* result of peak_alignment on the two normalised columns, anything else
\* (also "cross_correlation" and no method) the result of
\* rising_edge_alignment on them; no correlation is ever computed.
C3_Dispatch ==
  /\ strategy \in {Absent, Some("manual"), Some("peak_alignment"),
                    Some("rising_edge_alignment")}
  /\ (Terminal /\ Selectable) =>
       LET n1 == normalize(Column1.val)
           n2 == normalize(Column2.val)
       IN  CASE ConfiguredMethod = "manual" ->
                  /\ strategy = Some("manual")
                  /\ Outcome = Ret(manual_offset_of(config))
             [] ConfiguredMethod = "peak_detection" ->
                  /\ strategy = Some("peak_alignment")
                  /\ Outcome = peak_alignment(n1, n2, sampling_interval_s, Rat(1, 2))
             [] OTHER ->
                  /\ strategy = Some("rising_edge_alignment")
                  /\ Outcome = rising_edge_alignment(n1, n2, sampling_interval_s)

C3_Witness ==
  /\ pc = "done"
  /\ ConfiguredMethod = "cross_correlation"
  /\ strategy = Some("rising_edge_alignment")
  /\ offset_s # Some(Zero)

\* C4: the rising-edge strategy returns (edge1 - edge2) * interval, each
\* edge being the first sample that rises by more than 0.1 over its
\* predecessor; for the columns [0,0,0,0,1,1,1,1] and [0,0,1,1,1,1,1,1] at
\* 0.1 s the edges are 4 and 2 and the offset is 0.2 s.
C4_RisingEdgeOffset ==
  (pc = "done" /\ strategy = Some("rising_edge_alignment")) =>
     /\ start1 = Some(FirstRise(The(signal1)))
     /\ start2 = Some(FirstRise(The(signal2)))
     /\ threshold = Some(Rat(1, 10))
     /\ offset_s = Some(Rat((The(start1) - The(start2)) * sampling_interval_s.num,
                            sampling_interval_s.den))
     /\ (/\ Column1.val = File1Example
         /\ Column2.val = File2Example
         /\ sampling_interval_s = Rat(1, 10))
        => (start1 = Some(4) /\ start2 = Some(2) /\ offset_s = Some(Rat(2, 10)))

C4_Witness ==
  /\ pc = "done"
  /\ strategy = Some("rising_edge_alignment")
  /\ Column1.val = File1Example
  /\ Column2.val = File2Example
  /\ sampling_interval_s = Rat(1, 10)
  /\ offset_s = Some(Rat(1, 5))

\* A sample that is not below either neighbour and lies above the height.
LocalMaximumAbove(sig, i, h) ==
  /\ sig.v # 0
  /\ sig.num[i] <= sig.num[i + 1]
  /\ sig.num[i + 2] <= sig.num[i + 1]
  /\ (IF h.num >= 0
      THEN sig.num[i + 1] > 0
           /\ sig.num[i + 1] * sig.num[i + 1] * h.den * h.den > h.num * h.num * sig.v
      ELSE TRUE)
LowestLocalMaximum(sig, i, h) ==
  /\ i \in 1..(Len(sig.num) - 2)
  /\ LocalMaximumAbove(sig, i, h)
  /\ \A j \in 1..(i - 1) : ~LocalMaximumAbove(sig, j, h)

\* The flat tops of a signal: runs l..r of equal samples inside 1..n-2 with a
\* strictly lower sample on each side, and the middles of those that reach
\* half a standard deviation above the mean.
FlatTops(sig) ==
  {lr \in (1..(Len(sig.num) - 2)) \X (1..(Len(sig.num) - 2)) :
     /\ lr[1] <= lr[2]
     /\ sig.v # 0
     /\ sig.num[lr[1]] < sig.num[lr[1] + 1]
     /\ \A k \in lr[1]..lr[2] : sig.num[k + 1] = sig.num[lr[1] + 1]
     /\ sig.num[lr[2] + 2] < sig.num[lr[2] + 1]}
DetectedPeaks(sig) ==
  {(lr[1] + lr[2]) \div 2 : lr \in
     {t \in FlatTops(sig) :
        sig.num[t[1] + 1] > 0 /\ 4 * sig.num[t[1] + 1] * sig.num[t[1] + 1] >= sig.v}}
Lowest(S) == CHOOSE m \in S : \A k \in S : m <= k
PeakStrategyRan == Terminal /\ strategy = Some("peak_alignment")
PeaksInBoth ==
  DetectedPeaks(The(signal1)) # {} /\ DetectedPeaks(The(signal2)) # {}

\* C5 (as claimed): when both signals have a detected peak, the offset is
\* (p1 - p2) / interval with p the lowest index that is a local maximum
\* exceeding the height 0.5.
C5_LowestLocalMaximum ==
  (PeakStrategyRan /\ PeaksInBoth) =>
     \E p1 \in 1..(Len(The(signal1).num) - 2), p2 \in 1..(Len(The(signal2).num) - 2) :
        /\ LowestLocalMaximum(The(signal1), p1, Rat(1, 2))
        /\ LowestLocalMaximum(The(signal2), p2, Rat(1, 2))
        /\ offset_s = Some(Rat((p1 - p2) * sampling_interval_s.den,
                               sampling_interval_s.num))

\* C5 (amended): when both signals have a detected peak, the offset is
\* (p1 - p2) / interval (a division), p being the first peak the peak finder
\* reports: the middle, rounded down, of the lowest flat top whose value is
\* at least the height 0.5.
C5_FirstPeakDivided ==
  (PeakStrategyRan /\ PeaksInBoth) =>
     /\ pc = "done"
     /\ out = <<"[Peak Detection] Estimated offset">>
     /\ offset_s = Some(Rat((Lowest(DetectedPeaks(The(signal1)))
                             - Lowest(DetectedPeaks(The(signal2))))
                            * sampling_interval_s.den, sampling_interval_s.num))

C5_Witness ==
  /\ PeakStrategyRan
  /\ Column1.val = <<0, 1, 1, 1, 0>>
  /\ Column2.val = <<0, 1, 0>>
  /\ sampling_interval_s = Rat(1, 4)
  /\ offset_s = Some(Rat(4, 1))

\* C6: when one of the two signals, or both, has no detected peak, the peak
\* strategy does not raise and returns exactly 0.0, whatever the other
\* signal and the interval are.
C6_NoPeaksZero ==
  (PeakStrategyRan /\ ~PeaksInBoth) =>
     /\ pc = "done"
     /\ error = Absent
     /\ offset_s = Some(Rat(0, 1))
     /\ out = <<"[Peak Detection] No peaks found">>

C6_Witness ==
  /\ PeakStrategyRan
  /\ DetectedPeaks(The(signal1)) # {}
  /\ DetectedPeaks(The(signal2)) = {}
  /\ ~IsConstant(Column2.val)
  /\ offset_s = Some(Zero)

ZeroVarianceSelected ==
  Selectable /\ (IsConstant(Column1.val) \/ IsConstant(Column2.val))

RisingStrategyRan == Terminal /\ strategy = Some("rising_edge_alignment")

\* C8: the rising-edge strategy is antisymmetric: the offset of (s1, s2) is
\* the negative of the offset of (s2, s1) at the same interval (both calls
\* fail together on a signal too short to have a difference), and it is 0
\* when s1 = s2.
C8_Antisymmetric ==
  RisingStrategyRan =>
     LET there == rising_edge_alignment(The(signal1), The(signal2), sampling_interval_s)
         back == rising_edge_alignment(The(signal2), The(signal1), sampling_interval_s)
     IN  /\ Outcome.ok = there.ok
         /\ there.ok = back.ok
         /\ there.ok =>
              /\ Outcome.val = there.val
              /\ there.val.den = back.val.den
              /\ there.val.num + back.val.num = 0
              /\ (The(signal1) = The(signal2)) => Outcome.val = Rat(0, 1)

C8_Witness ==
  /\ RisingStrategyRan
  /\ pc = "done"
  /\ The(offset_s).num < 0
  /\ rising_edge_alignment(The(signal2), The(signal1), sampling_interval_s).val.num > 0

ExceedsAt(sig, i, t) == (sig.num[i + 1] - sig.num[i]) * t.den > t.num

\* C10: on a signal of at least two samples find_rising_edge returns an
\* index in 1..len-1, and when some consecutive difference is strictly
\* above the threshold it returns the smallest index with such a difference
\* (a difference equal to the threshold is passed over).
C10_FirstStrictRise ==
  (pc \in {"returned", "raised"} /\ Len(The(signal1).num) >= 2) =>
     /\ pc = "returned"
     /\ The(start1) \in 1..(Len(The(signal1).num) - 1)
     /\ \A i \in 1..(Len(The(signal1).num) - 1) :
          (/\ ExceedsAt(The(signal1), i, The(threshold))
           /\ \A j \in 1..(i - 1) : ~ExceedsAt(The(signal1), j, The(threshold)))
          => start1 = Some(i)

C10_Witness ==
  /\ pc = "returned"
  /\ The(signal1).num = <<0, 1, 0, 2>>
  /\ threshold = Some(Rat(1, 1))
  /\ start1 = Some(3)

NoRise ==
  \A i \in 1..(Len(The(signal1).num) - 1) :
     ~ExceedsAt(The(signal1), i, The(threshold))

\* C11 (as claimed): whenever no consecutive difference of a (non-empty)
\* signal exceeds the threshold, find_rising_edge returns 1 and does not raise.
C11_NoEdgeReturnsOne ==
  (pc \in {"returned", "raised"} /\ NoRise /\ Len(The(signal1).num) >= 1) =>
     pc = "returned" /\ start1 = Some(1) /\ error = Absent

\* C11 (amended): on a signal of at least two samples in which no
\* consecutive difference exceeds the threshold, find_rising_edge returns 1
\* and does not raise, the very value it returns for an edge at index 1.
C11_NoEdgeReturnsOneFromTwoSamples ==
  (pc \in {"returned", "raised"} /\ NoRise /\ Len(The(signal1).num) >= 2) =>
     /\ pc = "returned"
     /\ error = Absent
     /\ start1 = Some(1)
     /\ Ret(The(start1)) = find_rising_edge(Raw(<<0, 3>>), The(threshold))

C11_Witness ==
  /\ pc = "returned"
  /\ The(signal1).num = <<3, 2, 1, 0>>
  /\ threshold = Some(Rat(1, 10))
  /\ start1 = Some(1)

NormalizationDone == pc = "dispatch" \/ strategy # Absent

\* C12 (as claimed): estimate_offset checks the column indices, then
\* normalises both selected columns, then dispatches; an index outside
\* 0..ncols-1 makes the call fail for every method, "manual" included,
\* before anything is normalised and before any diagnostic is printed.
C12_ValidationFirst ==
  /\ NormalizationDone =>
       columns_accepted(df1, df2, col1_index_of(config), col2_index_of(config))
  /\ strategy # Absent =>
       /\ signal1 = Some(normalize(Column1.val))
       /\ signal2 = Some(normalize(Column2.val))
  /\ ~ColumnsInRange =>
       /\ ~NormalizationDone
       /\ out = <<>>
       /\ Terminal => (pc = "raised" /\ offset_s = Absent)

\* C13 (as claimed): after the clamping step of main the four slice indices
\* are valid: start_idx1 and end_idx1 lie in 0..len(df1), start_idx2 and
\* end_idx2 in 0..len(df2), for every window, interval and offset.
C13_IndicesValid ==
  (pc = "clamped") =>
     /\ The(start_idx1) \in 0..nrows(df1)
     /\ The(end_idx1) \in 0..nrows(df1)
     /\ The(start_idx2) \in 0..nrows(df2)
     /\ The(end_idx2) \in 0..nrows(df2)

\* C14: the result of estimate_offset does not depend on the configuration
\* fields slope_threshold and peak_height: the call with any other values of
\* the two fields, everything else equal, ends with the same offset (or the
\* same error), and the rising-edge strategy runs with the threshold 0.1.
C14_ThresholdsIgnored ==
  Terminal =>
     /\ Outcome = estimate_offset(df1, df2, sampling_interval_s, config)
     /\ \A t \in ConfiguredSlopes, h \in ConfiguredHeights :
          estimate_offset(df1, df2, sampling_interval_s,
                          [config EXCEPT !.slope_threshold = t, !.peak_height = h])
            = Outcome
     /\ strategy = Some("rising_edge_alignment") => threshold = Some(Rat(1, 10))

C14_Witness ==
  /\ pc = "done"
  /\ strategy = Some("peak_alignment")
  /\ config.peak_height = Some(Rat(3, 1))
  /\ config.slope_threshold = Some(Rat(3, 1))
  /\ Column1.val = <<0, 1, 1, 1, 0>>
  /\ Column2.val = <<0, 1, 0>>
  /\ offset_s = Some(Rat(10, 1))

\* estimate_offset has been entered: the call is under way, or it has left a
\* local or one of its two errors behind.
EstimateInvoked ==
  \/ pc \in {"validate", "select", "normalize", "dispatch"}
  \/ signal1 # Absent
  \/ strategy # Absent
  \/ error = Some(out_of_range_error(df1, df2))
  \/ error = Some([type |-> "IndexError"])
  \/ error = Some([type |-> "ValueError"])

\* C15: main enters estimate_offset only when alignment_method is truthy;
\* without the key the offset of file 2 is exactly manual_offset_s (0.0 by
\* default), no strategy runs, and the rising-edge branch is never taken
\* for an unset method.
C15_EstimateOnlyWhenConfigured ==
  /\ EstimateInvoked =>
       (config.alignment_method # Absent /\ config.alignment_method # Some(""))
  /\ strategy = Some("rising_edge_alignment") => config.alignment_method # Absent
  /\ (config.alignment_method = Absent /\ pc \in {"done", "indices", "clamped"}) =>
       /\ offset_s = (IF config.manual_offset_s = Absent
                      THEN Some(Rat(0, 1)) ELSE config.manual_offset_s)
       /\ strategy = Absent
       /\ signal1 = Absent /\ signal2 = Absent

C15_Witness ==
  /\ pc = "clamped"
  /\ config.alignment_method = Absent
  /\ config.manual_offset_s = Some(Rat(-5, 2))
  /\ offset_s = Some(Rat(-5, 2))
  /\ strategy = Absent
  /\ start_idx2 = Some(25)

====
